---- MODULE Spec2Model ----
(***************************************************************************)
(* Tic Tac Toe (src/tic_tac_toe_frontend/src/App.js): the game session of  *)
(* the App component (board, turn, mode, the "AI is thinking" flag), the   *)
(* AI move effect with its 450 ms timer and its asynchronous remote call,  *)
(* and the pure helpers calculateWinner, findWinningMove, heuristicMove,   *)
(* isStrongBlock, getMoveFromOpenAI and getAiMoveSafe.                     *)
(*                                                                         *)
(* Values.  A cell holds "X", "O" or null.  A move is a JavaScript value:  *)
(* null or a number.  A number x is the record                             *)
(* [type |-> "number", n |-> x * Grain], so that the numbers a JSON body   *)
(* can carry between two cell indices (2.5) are values of the model.       *)
(* The chat log is written by the handlers and read by nothing but the     *)
(* chat panel; it is not part of the state modelled here.                  *)
(***************************************************************************)
EXTENDS Integers, Sequences, FiniteSets, Bags

VARIABLES squares,     \* useState: the nine cells
          xIsNext,     \* useState: TRUE when X moves next
          mode,        \* useState: "HUMAN_AI" or "HUMAN_HUMAN"
          aiThinking,  \* useState: the awaiting-decision flag
          apiKey,      \* process.env.REACT_APP_OPENAI_API_KEY is set
          timer,       \* pending setTimeout callbacks (the board each one closed over)
          inflight,    \* bag of remote calls not yet resolved (the board each closed over)
          steps,       \* number of events handled so far
          last         \* the last event handled, with its arguments and result

vars == <<squares, xIsNext, mode, aiThinking, apiKey, timer, inflight, steps, last>>

\* ------------------------------------------------------------------ bounds

\* Events handled in one run (clicks, resets, mode changes, timer callbacks,
\* resolutions of remote calls).
MaxSteps == 9
\* Events handled in one run of the session that takes move requests for any cell.
MaxRequestSteps == 6
\* In the session that is followed to its end, the user causes events among the
\* first MaxLiveSteps events only.
MaxLiveSteps == 5
\* Resolution of numbers: x is held as x * Grain.
Grain == 2
\* Math.random() ranges over 0/RandomGrain .. (RandomGrain-1)/RandomGrain.
RandomGrain == 4

\* ------------------------------------------------------------------ values

null == "null"
aiMark == "O"
humanMark == "X"
Cells == 0..8
Marks == {"X", "O"}
Boards == [Cells -> Marks \cup {null}]
EmptyBoard == [i \in Cells |-> null]

nullMove == [type |-> "null"]
Number(k) == [type |-> "number", n |-> k * Grain]
typeofNumber(v) == v.type = "number"
IsInteger(v) == typeofNumber(v) /\ v.n % Grain = 0

\* squares[move] for a move that is a number: the cell when the number is an
\* index of the array, and undefined (== null) otherwise.
At(sq, move) ==
    IF IsInteger(move) /\ (move.n \div Grain) \in Cells THEN sq[move.n \div Grain] ELSE null

\* next = squares.slice(); next[move] = mark: the cell is written when the number
\* is an index of the array; any other number names a property of the array object
\* and leaves the nine cells as they were.
Put(sq, move, mark) ==
    IF IsInteger(move) /\ (move.n \div Grain) \in Cells
    THEN [sq EXCEPT ![move.n \div Grain] = mark]
    ELSE sq

WIN_LINES == << <<0,1,2>>, <<3,4,5>>, <<6,7,8>>,
                <<0,3,6>>, <<1,4,7>>, <<2,5,8>>,
                <<0,4,8>>, <<2,4,6>> >>

\* ------------------------------------------------------------------ pure helpers

RECURSIVE winnerFrom(_, _)
winnerFrom(sq, k) ==
    IF k > Len(WIN_LINES) THEN [winner |-> null, line |-> <<>>]
    ELSE LET a == WIN_LINES[k][1]
             b == WIN_LINES[k][2]
             c == WIN_LINES[k][3]
         IN IF sq[a] # null /\ sq[a] = sq[b] /\ sq[a] = sq[c]
            THEN [winner |-> sq[a], line |-> <<a, b, c>>]
            ELSE winnerFrom(sq, k + 1)

\* calculateWinner with the three rows as its only lines.
calculateWinner_rowsOnly(sq) ==
    IF \E k \in 1..3 : sq[WIN_LINES[k][1]] # null
                       /\ sq[WIN_LINES[k][1]] = sq[WIN_LINES[k][2]]
                       /\ sq[WIN_LINES[k][1]] = sq[WIN_LINES[k][3]]
    THEN winnerFrom(sq, 1)
    ELSE [winner |-> null, line |-> <<>>]

\* calculateWinner returning the last completed line instead of the first.
calculateWinner_lastLine(sq) ==
    LET hits == {k \in 1..Len(WIN_LINES) :
                    sq[WIN_LINES[k][1]] # null
                    /\ sq[WIN_LINES[k][1]] = sq[WIN_LINES[k][2]]
                    /\ sq[WIN_LINES[k][1]] = sq[WIN_LINES[k][3]]}
    IN IF hits = {} THEN [winner |-> null, line |-> <<>>]
       ELSE LET k == CHOOSE h \in hits : \A g \in hits : g <= h
            IN [winner |-> sq[WIN_LINES[k][1]], line |-> WIN_LINES[k]]

calculateWinner(sq) == winnerFrom(sq, 1)

isBoardFull(sq) == \A i \in Cells : sq[i] # null
isDraw(sq) == calculateWinner(sq).winner = null /\ isBoardFull(sq)

RECURSIVE findWinningMoveFrom(_, _, _)
findWinningMoveFrom(sq, mark, k) ==
    IF k > Len(WIN_LINES) THEN nullMove
    ELSE LET abc == WIN_LINES[k]
             empties == SelectSeq(abc, LAMBDA i : sq[i] = null)
             count == Cardinality({j \in 1..3 : sq[abc[j]] = mark})
         IN IF count = 2 /\ Len(empties) = 1
            THEN Number(empties[1])
            ELSE findWinningMoveFrom(sq, mark, k + 1)

findWinningMove(sq, mark) == findWinningMoveFrom(sq, mark, 1)

\* Math.floor(Math.random() * len), with Math.random() = rnd / RandomGrain.
RandomIndex(rnd, len) == (rnd * len) \div RandomGrain

\* heuristicMove without its last rule: no side is taken.
heuristicMove_noSides(sq, ai, opp, rnd) ==
    LET win == findWinningMove(sq, ai)
        block == findWinningMove(sq, opp)
        corners == SelectSeq(<<0, 2, 6, 8>>, LAMBDA i : sq[i] = null)
    IN IF win # nullMove THEN win
       ELSE IF block # nullMove THEN block
       ELSE IF sq[4] = null THEN Number(4)
       ELSE IF Len(corners) > 0 THEN Number(corners[RandomIndex(rnd, Len(corners)) + 1])
       ELSE nullMove

\* heuristicMove with its first two rules exchanged: block, then win.
heuristicMove_blockFirst(sq, ai, opp, rnd) ==
    LET win == findWinningMove(sq, ai)
        block == findWinningMove(sq, opp)
        corners == SelectSeq(<<0, 2, 6, 8>>, LAMBDA i : sq[i] = null)
        sides == SelectSeq(<<1, 3, 5, 7>>, LAMBDA i : sq[i] = null)
    IN IF block # nullMove THEN block
       ELSE IF win # nullMove THEN win
       ELSE IF sq[4] = null THEN Number(4)
       ELSE IF Len(corners) > 0 THEN Number(corners[RandomIndex(rnd, Len(corners)) + 1])
       ELSE IF Len(sides) > 0 THEN Number(sides[RandomIndex(rnd, Len(sides)) + 1])
       ELSE nullMove

\* heuristicMove with the center taken before a block is looked for.
heuristicMove_centerFirst(sq, ai, opp, rnd) ==
    LET win == findWinningMove(sq, ai)
        block == findWinningMove(sq, opp)
        corners == SelectSeq(<<0, 2, 6, 8>>, LAMBDA i : sq[i] = null)
        sides == SelectSeq(<<1, 3, 5, 7>>, LAMBDA i : sq[i] = null)
    IN IF win # nullMove THEN win
       ELSE IF sq[4] = null THEN Number(4)
       ELSE IF block # nullMove THEN block
       ELSE IF Len(corners) > 0 THEN Number(corners[RandomIndex(rnd, Len(corners)) + 1])
       ELSE IF Len(sides) > 0 THEN Number(sides[RandomIndex(rnd, Len(sides)) + 1])
       ELSE nullMove

\* heuristicMove with a corner drawn before the center is looked at.
heuristicMove_cornerFirst(sq, ai, opp, rnd) ==
    LET win == findWinningMove(sq, ai)
        block == findWinningMove(sq, opp)
        corners == SelectSeq(<<0, 2, 6, 8>>, LAMBDA i : sq[i] = null)
        sides == SelectSeq(<<1, 3, 5, 7>>, LAMBDA i : sq[i] = null)
    IN IF win # nullMove THEN win
       ELSE IF block # nullMove THEN block
       ELSE IF Len(corners) > 0 THEN Number(corners[RandomIndex(rnd, Len(corners)) + 1])
       ELSE IF sq[4] = null THEN Number(4)
       ELSE IF Len(sides) > 0 THEN Number(sides[RandomIndex(rnd, Len(sides)) + 1])
       ELSE nullMove

heuristicMove(sq, ai, opp, rnd) ==
    LET win == findWinningMove(sq, ai)
        block == findWinningMove(sq, opp)
        corners == SelectSeq(<<0, 2, 6, 8>>, LAMBDA i : sq[i] = null)
        sides == SelectSeq(<<1, 3, 5, 7>>, LAMBDA i : sq[i] = null)
    IN IF win # nullMove THEN win
       ELSE IF block # nullMove THEN block
       ELSE IF sq[4] = null THEN Number(4)
       ELSE IF Len(corners) > 0 THEN Number(corners[RandomIndex(rnd, Len(corners)) + 1])
       ELSE IF Len(sides) > 0 THEN Number(sides[RandomIndex(rnd, Len(sides)) + 1])
       ELSE nullMove

\* isStrongBlock without the test that the line includes the cell placed.
isStrongBlock_anyLine(prevSquares, human, aiPlacedIndex) ==
    \E k \in 1..Len(WIN_LINES) :
       LET line == WIN_LINES[k]
           humanCount == Cardinality({j \in 1..3 : prevSquares[line[j]] = human})
           empties == SelectSeq(line, LAMBDA i : prevSquares[i] = null)
           emptyIdx == IF Len(empties) > 0 THEN Number(empties[1]) ELSE nullMove
       IN humanCount = 2 /\ emptyIdx # nullMove

\* line.find(...) is the first empty cell of the line, or undefined (== null).
isStrongBlock(prevSquares, human, aiPlacedIndex) ==
    \E k \in 1..Len(WIN_LINES) :
       LET line == WIN_LINES[k]
           humanCount == Cardinality({j \in 1..3 : prevSquares[line[j]] = human})
           empties == SelectSeq(line, LAMBDA i : prevSquares[i] = null)
           emptyIdx == IF Len(empties) > 0 THEN Number(empties[1]) ELSE nullMove
       IN /\ \E j \in 1..3 : Number(line[j]) = aiPlacedIndex
          /\ humanCount = 2
          /\ emptyIdx # nullMove

\* What the remote exchange can come to: fetch rejects ("network"), a status that
\* is not ok ("status"), a body or a content that is not JSON ("badjson"), a
\* parsed object without a move ("nomove"), a move that is not a number
\* ("notnumber"), a move that is a number.
RemoteNumbers == {[type |-> "number", n |-> t] : t \in (0 - Grain)..(9 * Grain)}
RemoteFailures == {"network", "status", "badjson"}
Remotes == {[kind |-> k] : k \in RemoteFailures \cup {"nomove", "notnumber"}}
           \cup {[kind |-> "number", move |-> v] : v \in RemoteNumbers}

\* getMoveFromOpenAI: throws, or returns the move field when it is a number and
\* null otherwise.
getMoveFromOpenAI(remote) ==
    IF remote.kind \in RemoteFailures THEN [threw |-> TRUE]
    ELSE IF remote.kind = "number" THEN [threw |-> FALSE, value |-> remote.move]
    ELSE [threw |-> FALSE, value |-> nullMove]

\* getAiMoveSafe, with the value of its last line, heuristicMove(squares, aiMark,
\* humanMark), passed as fallback.
getAiMoveSafeOr(sq, key, remote, fallback) ==
    IF key
    THEN LET r == getMoveFromOpenAI(remote)
         IN IF ~r.threw /\ typeofNumber(r.value)
                /\ r.value.n >= 0 /\ r.value.n <= 8 * Grain
                /\ At(sq, r.value) = null
            THEN r.value
            ELSE fallback
    ELSE fallback

getAiMoveSafe(sq, ai, human, key, remote, rnd) ==
    getAiMoveSafeOr(sq, key, remote, heuristicMove(sq, ai, human, rnd))

\* ------------------------------------------------------------------ the App component

\* The AI move effect (run after a render whose mode, xIsNext, squares, winner or
\* isDraw changed): the timers pending after it. The cleanup of the previous run
\* has cleared the earlier timer; a new one is set on the AI's turn, closing over
\* the squares of that render.
\* The effect without the test of the mode.
Effect_anyMode(sq, xn, md) ==
    IF calculateWinner(sq).winner = null /\ ~isDraw(sq) /\ ~xn
    THEN {sq}
    ELSE {}

Effect(sq, xn, md) ==
    IF md = "HUMAN_AI" /\ calculateWinner(sq).winner = null /\ ~isDraw(sq) /\ ~xn
    THEN {sq}
    ELSE {}

\* The disabled attribute of cell idx.
disabled(idx) ==
    LET winner == calculateWinner(squares).winner
    IN \/ squares[idx] # null
       \/ winner # null
       \/ aiThinking
       \/ (mode = "HUMAN_AI" /\ ~xIsNext /\ winner = null /\ ~isDraw(squares))

\* A reset has run since these calls were issued. The code keeps no such tag: it
\* is recorded here to state what becomes of their results.
Stale(calls) ==
    LET reqs == BagToSet(calls)
    IN [r \in {[q EXCEPT !.stale = TRUE] : q \in reqs} |->
           IF [r EXCEPT !.stale = FALSE] \in reqs /\ r \in reqs
           THEN calls[r] + calls[[r EXCEPT !.stale = FALSE]]
           ELSE IF r \in reqs THEN calls[r] ELSE calls[[r EXCEPT !.stale = FALSE]]]

\* onSquareClick without the test of squares[index].
onSquareClick_noOccupiedCheck(index) ==
    /\ IF calculateWinner(squares).winner # null \/ aiThinking
       THEN UNCHANGED <<squares, xIsNext, timer>>
       ELSE /\ squares' = [squares EXCEPT ![index] = IF xIsNext THEN humanMark ELSE aiMark]
            /\ xIsNext' = ~xIsNext
            /\ timer' = Effect(squares', xIsNext', mode)
    /\ UNCHANGED <<mode, aiThinking, apiKey, inflight>>

\* A rejected click sets no state: nothing is rendered and the pending timer stays.
onSquareClick(index) ==
    /\ IF squares[index] # null \/ calculateWinner(squares).winner # null \/ aiThinking
       THEN UNCHANGED <<squares, xIsNext, timer>>
       ELSE /\ squares' = [squares EXCEPT ![index] = IF xIsNext THEN humanMark ELSE aiMark]
            /\ xIsNext' = ~xIsNext
            /\ timer' = Effect(squares', xIsNext', mode)
    /\ UNCHANGED <<mode, aiThinking, apiKey, inflight>>

\* onReset's state updates (setChat apart) under the mode md of the next render,
\* and the effect run that follows.
ResetTo(md) ==
    /\ squares' = EmptyBoard
    /\ xIsNext' = TRUE
    /\ aiThinking' = FALSE
    /\ mode' = md
    /\ timer' = Effect(squares', xIsNext', mode')
    /\ inflight' = Stale(inflight)
    /\ UNCHANGED apiKey

onReset == ResetTo(mode)

handleModeChange(newMode) == ResetTo(newMode)

\* const move = await getAiMoveSafe(squares, aiMark, humanMark, pushChat), for the
\* squares b the callback closed over: the values the call can come to, over
\* every end of the remote exchange and every draw of Math.random().
AiMoves(b, key) ==
    UNION {{getAiMoveSafeOr(b, key, remote, fallback) :
               remote \in (IF key THEN Remotes ELSE {[kind |-> "notcalled"]})} :
           fallback \in {heuristicMove(b, aiMark, humanMark, rnd) :
                            rnd \in 0..(RandomGrain - 1)}}

\* The callback without its last statement, setAiThinking(false).
Settle_flagLeftSet(b, move, tmr) ==
    /\ IF move # nullMove /\ At(b, move) = null
       THEN /\ squares' = Put(b, move, aiMark)
            /\ xIsNext' = TRUE
            /\ timer' = Effect(squares', xIsNext', mode)
       ELSE /\ UNCHANGED <<squares, xIsNext>>
            /\ timer' = tmr
    /\ UNCHANGED aiThinking

\* Lines 63-74 of the timer callback, run with the squares b the callback closed
\* over: the move is applied to that board, and the flag is cleared. tmr is the
\* set of timers pending when it runs; they stay when no dependency of the effect
\* has changed.
Settle(b, move, tmr) ==
    /\ IF move # nullMove /\ At(b, move) = null
       THEN /\ squares' = Put(b, move, aiMark)
            /\ xIsNext' = TRUE
            /\ timer' = Effect(squares', xIsNext', mode)
       ELSE /\ UNCHANGED <<squares, xIsNext>>
            /\ timer' = tmr
    /\ aiThinking' = FALSE

\* One more event handled: op names the handler.
Handled(op) ==
    /\ steps' = steps + 1
    /\ last' = op

\* The timer callback up to its await. Without a key getAiMoveSafe makes no
\* remote call and its promise is settled at once: the callback runs to its end
\* before any other event is handled.
TimerCallback ==
    \E b \in timer :
       /\ UNCHANGED <<mode, apiKey>>
       /\ IF apiKey
          THEN /\ aiThinking' = TRUE
               /\ timer' = timer \ {b}
               /\ inflight' = inflight (+) SetToBag({[squares |-> b, stale |-> FALSE]})
               /\ Handled([op |-> "timer"])
               /\ UNCHANGED <<squares, xIsNext>>
          ELSE \E move \in AiMoves(b, FALSE) :
                  /\ Settle(b, move, timer \ {b})
                  /\ Handled([op |-> "aiMove", stale |-> FALSE])
                  /\ UNCHANGED inflight

\* The remote call of one outstanding request comes to an end and the timer
\* callback resumes after its await.
Resume ==
    \E req \in BagToSet(inflight) :
       \E move \in AiMoves(req.squares, TRUE) :
          /\ inflight' = inflight (-) SetToBag({req})
          /\ Settle(req.squares, move, timer)
          /\ Handled([op |-> "aiMove", stale |-> req.stale])
          /\ UNCHANGED <<mode, apiKey>>

TimerFire ==
    /\ steps < MaxSteps
    /\ TimerCallback

Resolve ==
    /\ steps < MaxSteps
    /\ Resume

\* The user's events: a click on a cell that is not disabled, a click on the
\* Reset button (disabled while aiThinking), a change of the mode select.
Click(idx) ==
    /\ steps < MaxSteps
    /\ ~disabled(idx)
    /\ onSquareClick(idx)
    /\ Handled([op |-> "onSquareClick"])

ResetClick ==
    /\ steps < MaxSteps
    /\ ~aiThinking
    /\ onReset
    /\ Handled([op |-> "onReset"])

ModeChange(newMode) ==
    /\ steps < MaxSteps
    /\ newMode # mode
    /\ handleModeChange(newMode)
    /\ Handled([op |-> "handleModeChange"])

Init ==
    /\ squares = EmptyBoard
    /\ xIsNext = TRUE
    /\ mode = "HUMAN_AI"
    /\ aiThinking = FALSE
    /\ apiKey \in BOOLEAN
    /\ timer = {}
    /\ inflight = EmptyBag
    /\ steps = 0
    /\ last = [op |-> "init"]

Next ==
    \/ \E idx \in Cells : Click(idx)
    \/ ResetClick
    \/ \E newMode \in {"HUMAN_AI", "HUMAN_HUMAN"} : ModeChange(newMode)
    \/ TimerFire
    \/ Resolve

Spec == Init /\ [][Next]_vars

\* ------------------------------------------------------------------ the session, to its end
\* The user causes events among the first MaxLiveSteps events only; a pending
\* timer fires (nothing but the effect's cleanup clears it) and every remote call
\* comes to an end.

UserEvent ==
    /\ steps < MaxLiveSteps
    /\ \/ \E idx \in Cells : Click(idx)
       \/ ResetClick
       \/ \E newMode \in {"HUMAN_AI", "HUMAN_HUMAN"} : ModeChange(newMode)

NextLive == UserEvent \/ TimerCallback \/ Resume

SpecLive == Init /\ [][NextLive]_vars /\ WF_vars(TimerCallback) /\ WF_vars(Resume)

\* ------------------------------------------------------------------ move requests
\* The session with the presentation layer's disabled attributes set aside: a
\* move request for any cell reaches onSquareClick in any state.

Request(idx) ==
    /\ steps < MaxRequestSteps
    /\ onSquareClick(idx)
    /\ Handled([op |-> "request", index |-> idx])

NextRequest ==
    \/ steps < MaxRequestSteps /\ Next
    \/ \E idx \in Cells : Request(idx)

SpecRequest == Init /\ [][NextRequest]_vars

\* ------------------------------------------------------------------ calculateWinner
\* The function on every board.

InitWinner ==
    /\ squares \in Boards
    /\ xIsNext = TRUE
    /\ mode = "HUMAN_AI"
    /\ aiThinking = FALSE
    /\ apiKey = FALSE
    /\ timer = {}
    /\ inflight = EmptyBag
    /\ steps = 0
    /\ last = [op |-> "init"]

CallCalculateWinner ==
    /\ steps = 0
    /\ steps' = 1
    /\ last' = [op |-> "calculateWinner", arg |-> squares, ret |-> calculateWinner(squares)]
    /\ UNCHANGED <<squares, xIsNext, mode, aiThinking, apiKey, timer, inflight>>

SpecWinner == InitWinner /\ [][CallCalculateWinner]_vars

\* ------------------------------------------------------------------ getAiMoveSafe
\* The function on the boards the AI move effect calls it with: those of a render
\* with no winner and no draw (line 56), whatever the numbers of X and O on them.

Count(sq, mark) == Cardinality({i \in Cells : sq[i] = mark})

AiTurnBoards ==
    {b \in Boards : calculateWinner(b).winner = null /\ ~isDraw(b)}

InitPolicy ==
    /\ squares \in AiTurnBoards
    /\ xIsNext = FALSE
    /\ mode = "HUMAN_AI"
    /\ aiThinking = TRUE
    /\ apiKey \in BOOLEAN
    /\ timer = {}
    /\ inflight = EmptyBag
    /\ steps = 0
    /\ last = [op |-> "init"]

CallGetAiMoveSafe ==
    \E remote \in IF apiKey THEN Remotes ELSE {[kind |-> "notcalled"]},
       rnd \in 0..(RandomGrain - 1) :
       /\ steps = 0
       /\ steps' = 1
       /\ last' = [op |-> "getAiMoveSafe", remote |-> remote,
                   ret |-> getAiMoveSafe(squares, aiMark, humanMark, apiKey, remote, rnd)]
       /\ UNCHANGED <<squares, xIsNext, mode, aiThinking, apiKey, timer, inflight>>

SpecPolicy == InitPolicy /\ [][CallGetAiMoveSafe]_vars

\* ------------------------------------------------------------------ heuristicMove
\* The function on every board, for either acting mark, called once and then
\* once more on the same arguments; each call draws its own Math.random().

InitHeuristic == InitWinner

CallHeuristicMove ==
    \E ai \in Marks, rnd \in 0..(RandomGrain - 1) :
       LET opp == IF ai = "X" THEN "O" ELSE "X"
       IN /\ steps = 0
          /\ steps' = 1
          /\ last' = [op |-> "heuristicMove", ai |-> ai, opp |-> opp,
                      ret |-> heuristicMove(squares, ai, opp, rnd)]
          /\ UNCHANGED <<squares, xIsNext, mode, aiThinking, apiKey, timer, inflight>>

CallHeuristicMoveAgain ==
    \E rnd \in 0..(RandomGrain - 1) :
       /\ steps = 1
       /\ last.op = "heuristicMove"
       /\ steps' = 2
       /\ last' = [op |-> "heuristicMoveAgain", ai |-> last.ai, opp |-> last.opp,
                   first |-> last.ret,
                   ret |-> heuristicMove(squares, last.ai, last.opp, rnd)]
       /\ UNCHANGED <<squares, xIsNext, mode, aiThinking, apiKey, timer, inflight>>

NextHeuristic == CallHeuristicMove \/ CallHeuristicMoveAgain

SpecHeuristic == InitHeuristic /\ [][NextHeuristic]_vars

\* ------------------------------------------------------------------ isStrongBlock
\* The function on every board, for either opposing mark and every cell.

InitBlock == InitWinner

CallIsStrongBlock ==
    \E human \in Marks, idx \in Cells :
       /\ steps = 0
       /\ steps' = 1
       /\ last' = [op |-> "isStrongBlock", arg |-> squares, turn |-> xIsNext,
                   human |-> human, index |-> idx,
                   ret |-> isStrongBlock(squares, human, Number(idx))]
       /\ UNCHANGED <<squares, xIsNext, mode, aiThinking, apiKey, timer, inflight>>

SpecBlock == InitBlock /\ [][CallIsStrongBlock]_vars

\* ------------------------------------------------------------------ properties

\* The eight lines in the order the specification fixes: rows, columns, diagonals.
LinesInOrder == << <<0,1,2>>, <<3,4,5>>, <<6,7,8>>,
                   <<0,3,6>>, <<1,4,7>>, <<2,5,8>>,
                   <<0,4,8>>, <<2,4,6>> >>

\* Line k of board sq holds three times the same mark.
Completed(sq, k) ==
    /\ sq[LinesInOrder[k][1]] \in Marks
    /\ sq[LinesInOrder[k][2]] = sq[LinesInOrder[k][1]]
    /\ sq[LinesInOrder[k][3]] = sq[LinesInOrder[k][1]]

HasLine(sq, mark) == \E k \in 1..8 : Completed(sq, k) /\ sq[LinesInOrder[k][1]] = mark
Decided(sq) == HasLine(sq, "X") \/ HasLine(sq, "O") \/ \A i \in Cells : sq[i] \in Marks
Outstanding == BagCardinality(inflight)

\* C1: the result of an automated decision that was in flight when a reset or a
\* mode change happened changes neither the board, nor the turn, nor the flag
\* of the new game when it arrives.
C1_StaleResultDiscarded ==
    [][(last'.op = "aiMove" /\ steps' = steps + 1 /\ last'.stale)
          => (squares' = squares /\ xIsNext' = xIsNext /\ aiThinking' = aiThinking)]_vars

\* C2: while an automated decision request is outstanding, no click places a mark.
C2_NoHumanMoveWhileOutstanding ==
    [][(Outstanding > 0 /\ last'.op = "onSquareClick" /\ steps' = steps + 1)
          => squares' = squares]_vars

\* C3: at most one automated decision request is outstanding at any time.
C3_AtMostOneOutstanding == Outstanding <= 1

\* C4: a move request aimed at an occupied cell, made after a winner exists, or
\* made while aiThinking is set, leaves the board, the turn and the flag as they were.
C4_RejectedRequestIsNoOp ==
    [][(/\ last'.op = "request"
        /\ steps' = steps + 1
        /\ \/ squares[last'.index] \in Marks
           \/ HasLine(squares, "X")
           \/ HasLine(squares, "O")
           \/ aiThinking)
          => (squares' = squares /\ xIsNext' = xIsNext /\ aiThinking' = aiThinking)]_vars

\* A request for a cell that holds X has been handled with X to move: had it been
\* accepted, O would be to move.
C4_Witness ==
    /\ last.op = "request"
    /\ squares[last.index] = "X"
    /\ xIsNext
    /\ ~aiThinking
    /\ ~HasLine(squares, "X") /\ ~HasLine(squares, "O")

\* A request for an empty cell has been handled after a winner existed.
C4_WitnessWinner ==
    /\ last.op = "request"
    /\ squares[last.index] = null
    /\ HasLine(squares, "X") \/ HasLine(squares, "O")

\* A request for an empty cell has been handled while aiThinking was set.
C4_WitnessThinking ==
    /\ last.op = "request"
    /\ squares[last.index] = null
    /\ aiThinking

\* C5: the turn is consistent with the marks on the board: as many X as O when X
\* is next, one X more than O when O is next.
C5_TurnMatchesMarks ==
    Count(squares, "X") = Count(squares, "O") + (IF xIsNext THEN 0 ELSE 1)

\* C6: once the game is decided (a completed line, or a full board), only a reset
\* or a mode change alters the board or the turn.
C6_DecidedIsFrozen ==
    [][(Decided(squares) /\ last'.op \notin {"onReset", "handleModeChange"})
          => (squares' = squares /\ xIsNext' = xIsNext)]_vars

\* C7: no reachable board holds a line of three X and a line of three O.
C7_AtMostOneWinner == ~(HasLine(squares, "X") /\ HasLine(squares, "O"))

\* A move has just completed a line.
C7_Witness ==
    /\ last.op \in {"onSquareClick", "aiMove"}
    /\ HasLine(squares, "X") \/ HasLine(squares, "O")

\* C8: calculateWinner returns the mark and the triple of the first completed
\* line in the fixed order, returns winner null with an empty line exactly when no
\* line is completed, and leaves the board as it was.
C8_CalculateWinner ==
    last.op = "calculateWinner" =>
       LET done == {k \in 1..8 : Completed(squares, k)}
       IN /\ squares = last.arg
          /\ (last.ret.winner = null /\ last.ret.line = <<>>) <=> (done = {})
          /\ done # {} =>
                \E k \in done :
                   /\ \A j \in done : k <= j
                   /\ last.ret.winner = squares[LinesInOrder[k][1]]
                   /\ last.ret.line = LinesInOrder[k]

\* calculateWinner has run on a board with two completed lines, the first of
\* which is not the first line.
C8_Witness ==
    /\ last.op = "calculateWinner"
    /\ ~Completed(squares, 1)
    /\ Cardinality({k \in 1..8 : Completed(squares, k)}) >= 2
    /\ last.ret.winner \in Marks

\* The remote value is an integer in 0..8 whose cell is empty on board sq.
ValidSuggestion(sq, remote) ==
    /\ remote.kind = "number"
    /\ remote.move.n % Grain = 0
    /\ (remote.move.n \div Grain) \in Cells
    /\ sq[remote.move.n \div Grain] = null

\* The values heuristicMove can return on board sq for the AI.
HeuristicChoices(sq) ==
    {heuristicMove(sq, aiMark, humanMark, rnd) : rnd \in 0..(RandomGrain - 1)}

\* The move is the index of an empty cell of sq.
EmptyCellIndex(sq, move) ==
    /\ move.type = "number"
    /\ move.n % Grain = 0
    /\ (move.n \div Grain) \in Cells
    /\ sq[move.n \div Grain] = null

\* C9: the remote value is the move only if it is an integer in 0..8 whose cell
\* is empty; for every other remote value the move is one heuristicMove chooses.
C9_OnlyValidSuggestionUsed ==
    (last.op = "getAiMoveSafe" /\ apiKey) =>
       IF ValidSuggestion(squares, last.remote)
       THEN last.ret = last.remote.move
       ELSE last.ret \in HeuristicChoices(squares)

\* C10: for every failure of the remote suggestion (no key, a thrown error, a
\* missing or invalid move), getAiMoveSafe returns the index of an empty cell
\* when the board has one.
C10_FailureYieldsEmptyCell ==
    (/\ last.op = "getAiMoveSafe"
     /\ ~(apiKey /\ ValidSuggestion(squares, last.remote))
     /\ \E i \in Cells : squares[i] = null)
       => EmptyCellIndex(squares, last.ret)

\* Line k of board sq holds two marks `mark` and one empty cell.
TwoAndEmpty(sq, mark, k) ==
    /\ Cardinality({j \in 1..3 : sq[LinesInOrder[k][j]] = mark}) = 2
    /\ Cardinality({j \in 1..3 : sq[LinesInOrder[k][j]] \notin Marks}) = 1

\* The first line, in the fixed order, that holds two `mark` and one empty cell.
FirstTwoAndEmpty(sq, mark) ==
    CHOOSE k \in 1..8 : TwoAndEmpty(sq, mark, k) /\ \A j \in 1..(k - 1) : ~TwoAndEmpty(sq, mark, j)

\* The empty cell of line k.
EmptyOf(sq, k) == CHOOSE i \in {LinesInOrder[k][j] : j \in 1..3} : sq[i] \notin Marks

Threat(sq, mark) == \E k \in 1..8 : TwoAndEmpty(sq, mark, k)
EmptyAmong(sq, cells) == {i \in cells : sq[i] \notin Marks}
HeuristicCalled == last.op \in {"heuristicMove", "heuristicMoveAgain"}

\* C11: on every board and for either acting mark, heuristicMove returns the
\* index of an empty cell when the board has one, and null exactly when the
\* board is full.
C11_HeuristicReturnsEmptyCell ==
    HeuristicCalled =>
       IF \A i \in Cells : squares[i] \in Marks
       THEN last.ret = [type |-> "null"]
       ELSE /\ last.ret.type = "number"
            /\ last.ret.n % Grain = 0
            /\ (last.ret.n \div Grain) \in Cells
            /\ squares[last.ret.n \div Grain] \notin Marks

\* heuristicMove has returned a side: center and corners are taken, no line
\* holds two equal marks and an empty cell.
C11_Witness ==
    /\ HeuristicCalled
    /\ last.ret.type = "number"
    /\ (last.ret.n \div Grain) \in {1, 3, 5, 7}
    /\ ~Threat(squares, "X") /\ ~Threat(squares, "O")
    /\ EmptyAmong(squares, {0, 2, 4, 6, 8}) = {}

\* heuristicMove has returned null on a full board.
C11_WitnessFull ==
    /\ HeuristicCalled
    /\ last.ret = [type |-> "null"]
    /\ \A i \in Cells : squares[i] \in Marks

\* C12: when the acting mark has a line with two of its marks and one empty
\* cell, heuristicMove returns the empty cell of the first such line in the fixed
\* order, whether or not the opposing mark has such a line too.
C12_WinPreferred ==
    (HeuristicCalled /\ Threat(squares, last.ai)) =>
       /\ last.ret.type = "number"
       /\ last.ret.n = Grain * EmptyOf(squares, FirstTwoAndEmpty(squares, last.ai))

\* Both marks have such a line, the opposing mark's comes first in the order,
\* the acting mark has two of them with different empty cells, and the cell
\* returned is not the opposing line's.
C12_Witness ==
    /\ HeuristicCalled
    /\ Threat(squares, last.ai) /\ Threat(squares, last.opp)
    /\ FirstTwoAndEmpty(squares, last.opp) < FirstTwoAndEmpty(squares, last.ai)
    /\ \E k \in 1..8 : /\ TwoAndEmpty(squares, last.ai, k)
                        /\ EmptyOf(squares, k) # EmptyOf(squares, FirstTwoAndEmpty(squares, last.ai))
    /\ last.ret.n # Grain * EmptyOf(squares, FirstTwoAndEmpty(squares, last.opp))

\* C13: when the acting mark has no winning cell, heuristicMove returns the
\* empty cell of the opposing mark's first two-with-one-empty line if there is
\* one (also when the center is empty); otherwise the center if it is empty;
\* otherwise an empty corner if there is one; otherwise an empty edge.
C13_RemainingPriority ==
    (HeuristicCalled /\ ~Threat(squares, last.ai) /\ \E i \in Cells : squares[i] \notin Marks) =>
       /\ last.ret.type = "number"
       /\ IF Threat(squares, last.opp)
          THEN last.ret.n = Grain * EmptyOf(squares, FirstTwoAndEmpty(squares, last.opp))
          ELSE IF squares[4] \notin Marks
          THEN last.ret.n = Grain * 4
          ELSE IF EmptyAmong(squares, {0, 2, 6, 8}) # {}
          THEN last.ret.n \in {Grain * i : i \in EmptyAmong(squares, {0, 2, 6, 8})}
          ELSE last.ret.n \in {Grain * i : i \in EmptyAmong(squares, {1, 3, 5, 7})}

\* heuristicMove has blocked while the center was empty.
C13_Witness ==
    /\ HeuristicCalled
    /\ ~Threat(squares, last.ai) /\ Threat(squares, last.opp)
    /\ squares[4] \notin Marks
    /\ last.ret.n # Grain * 4

\* heuristicMove has returned a corner other than the first empty one.
C13_WitnessCorner ==
    /\ HeuristicCalled
    /\ ~Threat(squares, "X") /\ ~Threat(squares, "O")
    /\ squares[4] \in Marks
    /\ last.ret.type = "number"
    /\ \E i \in EmptyAmong(squares, {0, 2, 6, 8}) : i * Grain < last.ret.n
    /\ (last.ret.n \div Grain) \in {0, 2, 6, 8}

\* C17 as stated: two calls of heuristicMove on the same board with the same
\* acting and opposing marks return the same value.
C17_HeuristicDeterministic ==
    last.op = "heuristicMoveAgain" => last.ret = last.first

\* C17 as amended: two calls on the same arguments return the same value when
\* one of the marks has a two-with-one-empty line or the center is empty;
\* otherwise both return an empty corner when there is one, and else both return
\* an empty edge (null both times on a full board).
C17_DeterministicUpToTies ==
    last.op = "heuristicMoveAgain" =>
       IF Threat(squares, last.ai) \/ Threat(squares, last.opp) \/ squares[4] \notin Marks
       THEN last.ret = last.first
       ELSE LET ties == IF EmptyAmong(squares, {0, 2, 6, 8}) # {}
                        THEN EmptyAmong(squares, {0, 2, 6, 8})
                        ELSE EmptyAmong(squares, {1, 3, 5, 7})
                pool == IF ties = {} THEN {[type |-> "null"]}
                        ELSE {[type |-> "number", n |-> Grain * i] : i \in ties}
            IN last.ret \in pool /\ last.first \in pool

\* Two calls on the same arguments have returned two different corners.
C17_Witness ==
    /\ last.op = "heuristicMoveAgain"
    /\ last.ret # last.first
    /\ last.ret.type = "number" /\ last.first.type = "number"
    /\ {last.ret.n \div Grain, last.first.n \div Grain} \subseteq {0, 2, 6, 8}

\* Two calls on the same arguments have returned the same blocking cell.
C17_WitnessSame ==
    /\ last.op = "heuristicMoveAgain"
    /\ ~Threat(squares, last.ai) /\ Threat(squares, last.opp)
    /\ last.ret = last.first

\* C18: for an empty cell, isStrongBlock is true exactly when the cell is the
\* sole empty cell of a line whose other two cells hold the opposing mark; the
\* call leaves the board and the turn as they were.
C18_StrongBlock ==
    (last.op = "isStrongBlock" /\ last.arg[last.index] \notin Marks) =>
       /\ last.ret <=> \E k \in 1..8 :
                          /\ last.index \in {LinesInOrder[k][j] : j \in 1..3}
                          /\ \A j \in 1..3 : \/ LinesInOrder[k][j] = last.index
                                              \/ last.arg[LinesInOrder[k][j]] = last.human
       /\ squares = last.arg
       /\ xIsNext = last.turn

\* isStrongBlock has returned true for an empty cell.
C18_Witness ==
    /\ last.op = "isStrongBlock"
    /\ last.arg[last.index] \notin Marks
    /\ last.ret

\* isStrongBlock has returned false for an empty cell while the opposing mark
\* had a two-with-one-empty line elsewhere.
C18_WitnessElsewhere ==
    /\ last.op = "isStrongBlock"
    /\ last.arg[last.index] \notin Marks
    /\ Threat(last.arg, last.human)
    /\ ~last.ret

\* C19: every step other than a reset or a mode change leaves the board as it
\* was or changes exactly one cell from empty to a mark.
C19_MarksNeverErased ==
    [][(last'.op \notin {"onReset", "handleModeChange"})
          => \/ squares' = squares
             \/ \E i \in Cells : /\ squares[i] \notin Marks
                                 /\ squares'[i] \in Marks
                                 /\ \A j \in Cells \ {i} : squares'[j] = squares[j]]_vars

\* C20: whenever aiThinking is set, the mode is Human-vs-AI, the board has no
\* completed line and an empty cell, and O is to move.
C20_ThinkingOnlyOnAiTurn ==
    aiThinking =>
       /\ mode = "HUMAN_AI"
       /\ ~HasLine(squares, "X") /\ ~HasLine(squares, "O")
       /\ \E i \in Cells : squares[i] \notin Marks
       /\ ~xIsNext

\* aiThinking is set, after an earlier request was left in flight by a reset.
C20_Witness ==
    /\ aiThinking
    /\ Outstanding = 2
    /\ Count(squares, "O") >= 1

\* C14: in every reachable state, also while aiThinking is set, a click on Reset
\* is accepted and yields the initial state: nine empty cells, X to move, the
\* flag clear.
C14_ResetAlwaysAccepted ==
    steps < MaxSteps =>
       ENABLED (/\ ResetClick
                /\ squares' = [i \in Cells |-> "null"]
                /\ xIsNext'
                /\ ~aiThinking')

\* C15: in Human-vs-AI mode, whenever the game is in progress and O is to move,
\* eventually an O mark has been added and X is to move, or a reset or a mode
\* change has intervened.
C15_AiTurnProgresses ==
    \A n \in 0..4 :
       (mode = "HUMAN_AI" /\ ~Decided(squares) /\ ~xIsNext /\ Count(squares, "O") = n)
          ~> \/ last.op \in {"onReset", "handleModeChange"}
             \/ (xIsNext /\ Count(squares, "O") = n + 1)

\* C16: once set, aiThinking is eventually clear; it is clear at the end of
\* every resumed callback, whatever the move, and it is never set while no
\* remote call is outstanding.
C16_FlagEventuallyCleared ==
    /\ aiThinking ~> ~aiThinking
    /\ [][last'.op = "aiMove" => ~aiThinking']_vars
    /\ [](aiThinking => Outstanding > 0)

\* A callback has resumed and applied no mark (the board holds one X more than
\* O and X is to move), and the flag is clear.
C16_Witness ==
    /\ apiKey
    /\ last.op = "aiMove"
    /\ ~last.stale
    /\ xIsNext /\ Count(squares, "X") = Count(squares, "O") + 1
    /\ ~aiThinking

\* A callback has resumed and applied its mark, and the flag is clear.
C16_WitnessApplied ==
    /\ apiKey
    /\ last.op = "aiMove"
    /\ xIsNext /\ Count(squares, "X") = Count(squares, "O") /\ Count(squares, "O") >= 1
    /\ ~aiThinking

====
